---------------------------- MODULE Spec2Model ----------------------------
(***************************************************************************)
(* Model of kernels/dynamic_quant_mha.cpp: the descriptor validation       *)
(* (dynamic_quant_mha_kd_t::init), the kernel construction, the workspace  *)
(* sizing (get_workspace_size) and the two-phase parallel execute.         *)
(***************************************************************************)
EXTENDS Integers, Sequences, FiniteSets, TLC

(***************************************************************************)
(* Bounds of the model.                                                    *)
(***************************************************************************)
\* largest batch size the inputs are drawn from
MaxBatch == 2
\* number of defects a generated operator descriptor may carry at once
MaxDefects == 2
\* number of worker threads of the team that are modelled individually
MaxTeam == 2

(***************************************************************************)
(* Program constants.                                                      *)
(***************************************************************************)
\* bool amx_init[256]
AmxInitSize == 256
\* row block of the micro-kernels (the `16x` kernels, i += 16, j += 16)
Blk == 16
\* padding of the tile's K dimension (pad_to(.., 64))
Pad64 == 64
\* sizeof(float)
SizeofFloat == 4

(***************************************************************************)
(* The slots of mha_dense_io, in the order of the enumeration.            *)
(***************************************************************************)
io ==
  << "SRC_Q", "SRC_K", "SRC_V", "MASK", "DST", "WORKSPACE", "BINARY_ADD",
     "ATT_SCALE", "Q_SCALE", "Q_ZP", "K_SCALE", "K_ZP", "V_SCALE", "V_ZP",
     "SRC_DST_SCALE", "SRC_DST_ZP", "DST_SCALE", "DST_ZP",
     "BATCH_SIZE", "HEAD_NUM", "HEAD_SIZE", "M", "N" >>

\* mha_dense_io_MAX + 1: the size of the vectors get_tensor_shapes returns
mha_dense_io_SIZE == Len(io)

IoIndex(name) == CHOOSE i \in 1..Len(io) : io[i] = name

\* ceil_div(a, b) * b
pad_to(a, b) == ((a + b - 1) \div b) * b

Min(a, b) == IF a < b THEN a ELSE b

(***************************************************************************)
(* get_tensor_shapes / get_tensor_dtypes: a vector of MAX+1 default        *)
(* entries, the first descs.size() of them overwritten by std::transform.  *)
(* A descriptor list longer than the vector writes past its end.           *)
(***************************************************************************)
get_tensor_shapes(descs) ==
  [ name \in { io[i] : i \in 1..Len(io) } |->
      IF IoIndex(name) <= Len(descs) THEN descs[IoIndex(name)].shape ELSE << >> ]

get_tensor_dtypes(descs) ==
  [ name \in { io[i] : i \in 1..Len(io) } |->
      IF IoIndex(name) <= Len(descs) THEN descs[IoIndex(name)].dtype ELSE "undef" ]

\* std::transform(descs.begin(), descs.end(), shapes.begin(), ..) stays in shapes
TransformInRange(descs) == Len(descs) <= mha_dense_io_SIZE

(***************************************************************************)
(* Values an out-of-range operator[] read can produce when it does not     *)
(* fault.                                                                  *)
(***************************************************************************)
GarbageDims == {0, 7}

\* shapes[slot][k] (k counted from 0): the element, or any garbage value
ShapeAt(shape, k) == IF k < Len(shape) THEN {shape[k + 1]} ELSE GarbageDims

ShapeAtInRange(shape, k) == k < Len(shape)

(***************************************************************************)
(* The checks of dynamic_quant_mha_kd_t::init after the five dimensions    *)
(* have been read.                                                         *)
(***************************************************************************)
AttrsOk(attrs) ==
  /\ "approx_exp" \in DOMAIN attrs /\ attrs["approx_exp"] = "True"
  /\ "stable_softmax" \in DOMAIN attrs /\ attrs["stable_softmax"] = "False"

DynDimChecks(shapes, batch_size, head_num, M, head_size, N) ==
  /\ (batch_size > 0 \/ shapes["BATCH_SIZE"] = <<1>>)
  /\ (head_num > 0 \/ shapes["HEAD_NUM"] = <<1>>)
  /\ (M > 0 \/ shapes["HEAD_SIZE"] = <<1>>)
  /\ (head_size > 0 \/ shapes["M"] = <<1>>)
  /\ (N > 0 \/ shapes["N"] = <<1>>)

ShapeChecks(shapes, batch_size, head_num, M, head_size, N) ==
  /\ shapes["SRC_Q"] = <<batch_size, M, head_num, head_size>>
  /\ shapes["SRC_K"] = <<batch_size, N, head_num, head_size>>
  /\ shapes["SRC_V"] = <<batch_size, N, head_num, head_size>>
  /\ shapes["DST"] = <<batch_size, M, head_num, head_size>>
  /\ shapes["BINARY_ADD"] = <<batch_size, 1, 1, N>>
  /\ shapes["Q_SCALE"] = <<batch_size, M>>
  /\ shapes["K_SCALE"] = <<batch_size, N>>
  /\ shapes["V_SCALE"] = <<batch_size, N>>
  /\ shapes["DST_SCALE"] = <<batch_size, M>>

ZpChecks(shapes) ==
  /\ shapes["Q_ZP"] = << >>
  /\ shapes["K_ZP"] = << >>
  /\ shapes["V_ZP"] = << >>
  /\ shapes["DST_ZP"] = << >>
  /\ shapes["SRC_DST_SCALE"] = << >>
  /\ shapes["SRC_DST_ZP"] = << >>

DtypeChecks(dtypes) ==
  /\ \A s \in {"SRC_Q", "SRC_K", "SRC_V", "DST"} : dtypes[s] = "s8"
  /\ \A s \in {"BINARY_ADD", "Q_SCALE", "K_SCALE", "V_SCALE", "DST_SCALE"} :
       dtypes[s] = "fp32"

InitChecks(shapes, dtypes, batch_size, head_num, M, head_size, N) ==
  /\ DynDimChecks(shapes, batch_size, head_num, M, head_size, N)
  /\ ShapeChecks(shapes, batch_size, head_num, M, head_size, N)
  /\ ZpChecks(shapes)
  /\ DtypeChecks(dtypes)

Verdict(b) == IF b THEN "true" ELSE "false"

(***************************************************************************)
(* The outcomes of dynamic_quant_mha_kd_t::init on one descriptor: a       *)
(* result "true" or "false", or "crash"; oob records that a vector was     *)
(* indexed out of range on the way.                                        *)
(***************************************************************************)
kd_init_outcomes(isa_ok, attrs, descs) ==
  IF ~isa_ok \/ ~AttrsOk(attrs)
    THEN { [r |-> "false", oob |-> FALSE] }
    ELSE
      LET shapes == get_tensor_shapes(descs)
          dtypes == get_tensor_dtypes(descs)
          q == shapes["SRC_Q"]
          k == shapes["SRC_K"]
          inRange == /\ TransformInRange(descs)
                     /\ \A i \in 0..3 : ShapeAtInRange(q, i)
                     /\ ShapeAtInRange(k, 1)
          returned ==
            { [r |-> Verdict(InitChecks(shapes, dtypes, bs, hn, m, hs, n)),
               oob |-> ~inRange] :
                 <<bs, hn, m, hs, n>> \in
                   ShapeAt(q, 0) \X ShapeAt(q, 2) \X ShapeAt(q, 1)
                     \X ShapeAt(q, 3) \X ShapeAt(k, 1) }
      IN IF inRange THEN returned
         ELSE returned \cup { [r |-> "crash", oob |-> TRUE] }


(***************************************************************************)
(* dynamic_quant_mha_k_t: the constructor reads the five static dimensions *)
(* from the descriptor's Query and Key shapes (0 = resolved at call time). *)
(***************************************************************************)
Construct(descs) ==
  LET t_shapes_ == get_tensor_shapes(descs)
  IN [ batch_size_ |-> t_shapes_["SRC_Q"][1],
       head_num_   |-> t_shapes_["SRC_Q"][3],
       M_          |-> t_shapes_["SRC_Q"][2],
       head_size_  |-> t_shapes_["SRC_Q"][4],
       N_          |-> t_shapes_["SRC_K"][2] ]

\* get_workspace_size with the mask region sized as execute lays it out (N padded to 16)
get_workspace_size_mask16(k, max_threads) ==
  ( SizeofFloat * k.batch_size_ * pad_to(k.N_, Blk)
       + 1 * k.batch_size_ * k.head_num_
           * (pad_to(k.N_, Pad64) * pad_to(k.head_size_, Pad64)) * 2
       + SizeofFloat * k.batch_size_ * k.head_num_ * pad_to(k.head_size_, Pad64)
       + SizeofFloat * max_threads * Blk * k.head_num_ * pad_to(k.N_, Pad64) )

get_workspace_size(k, max_threads) ==
  ( SizeofFloat * k.batch_size_ * pad_to(k.N_, Pad64)
       + 1 * k.batch_size_ * k.head_num_
           * (pad_to(k.N_, Pad64) * pad_to(k.head_size_, Pad64)) * 2
       + SizeofFloat * k.batch_size_ * k.head_num_ * pad_to(k.head_size_, Pad64)
       + SizeofFloat * max_threads * Blk * k.head_num_ * pad_to(k.N_, Pad64) )

(***************************************************************************)
(* execute, lines 150-154: each dimension is the static one when positive, *)
(* else the first int32 of a dynamic-shape input of rt_data.               *)
(***************************************************************************)
\* Resolve with the M and HEAD_SIZE inputs exchanged, as init's checks have them
Resolve_swapped(k, rt) ==
  [ batch_size |-> IF k.batch_size_ > 0 THEN k.batch_size_ ELSE rt["BATCH_SIZE"],
    head_num   |-> IF k.head_num_ > 0 THEN k.head_num_ ELSE rt["HEAD_NUM"],
    head_size  |-> IF k.head_size_ > 0 THEN k.head_size_ ELSE rt["M"],
    M          |-> IF k.M_ > 0 THEN k.M_ ELSE rt["HEAD_SIZE"],
    N          |-> IF k.N_ > 0 THEN k.N_ ELSE rt["N"] ]

Resolve(k, rt) ==
  [ batch_size |-> IF k.batch_size_ > 0 THEN k.batch_size_ ELSE rt["BATCH_SIZE"],
    head_num   |-> IF k.head_num_ > 0 THEN k.head_num_ ELSE rt["HEAD_NUM"],
    head_size  |-> IF k.head_size_ > 0 THEN k.head_size_ ELSE rt["HEAD_SIZE"],
    M          |-> IF k.M_ > 0 THEN k.M_ ELSE rt["M"],
    N          |-> IF k.N_ > 0 THEN k.N_ ELSE rt["N"] ]

\* the dynamic-shape inputs execute dereferences
SlotsRead(k) ==
  (IF k.batch_size_ > 0 THEN {} ELSE {"BATCH_SIZE"})
    \cup (IF k.head_num_ > 0 THEN {} ELSE {"HEAD_NUM"})
    \cup (IF k.head_size_ > 0 THEN {} ELSE {"HEAD_SIZE"})
    \cup (IF k.M_ > 0 THEN {} ELSE {"M"})
    \cup (IF k.N_ > 0 THEN {} ELSE {"N"})

(***************************************************************************)
(* execute, lines 156-174: the padded sizes and the five regions carved    *)
(* out of the workspace, as byte offsets from the workspace pointer.       *)
(***************************************************************************)
Locals(d) ==
  LET head_size_pad16 == pad_to(d.head_size, Blk)
      head_size_pad64 == pad_to(d.head_size, Pad64)
      N_pad4  == pad_to(d.N, 4)
      N_pad16 == pad_to(d.N, Blk)
      N_pad64 == pad_to(d.N, Pad64)
      size_trq10n_v_block == Blk * N_pad4
  IN [ head_size_pad16 |-> head_size_pad16,
       head_size_pad64 |-> head_size_pad64,
       N_pad4 |-> N_pad4, N_pad16 |-> N_pad16, N_pad64 |-> N_pad64,
       size_trq10n_v_block |-> size_trq10n_v_block,
       size_pad0_v_block |-> N_pad64 * Blk - size_trq10n_v_block,
       tmp_mask_size |-> d.batch_size * N_pad16,
       head_tmp_k_size |-> head_size_pad64 * N_pad16,
       head_tmp_v_size |-> N_pad64 * head_size_pad16,
       head_tmp_v_scale_size |-> head_size_pad16,
       tmp_thread_size |-> d.head_num * Blk * N_pad64 ]

Layout(d, l) ==
  LET tmp_mask == 0
      tmp_k == tmp_mask + SizeofFloat * l.tmp_mask_size
      tmp_v == tmp_k + d.batch_size * d.head_num * l.head_tmp_k_size
      tmp_v_scale == tmp_v + d.batch_size * d.head_num * l.head_tmp_v_size
      tmp_threads == tmp_v_scale
                       + SizeofFloat * (d.batch_size * d.head_num * l.head_tmp_v_scale_size)
  IN [ tmp_mask |-> tmp_mask, tmp_k |-> tmp_k, tmp_v |-> tmp_v,
       tmp_v_scale |-> tmp_v_scale, tmp_threads |-> tmp_threads ]

\* the end of the per-thread scratch of max_threads threads (the tmp_end of line 175)
TmpEnd(p, l, max_threads) == p.tmp_threads + max_threads * l.tmp_thread_size


(***************************************************************************)
(* The loop nests of execute and the memory each micro-kernel invocation   *)
(* is handed as destination, as byte intervals <<lo, hi>> (hi exclusive)   *)
(* of the workspace.  e is execute's locals [d, l, p].                     *)
(***************************************************************************)
\* for (j = 0; j < n; j += 16)
Steps(n) == { j \in 0..(n - 1) : j % Blk = 0 }

\* #pragma omp parallel for collapse(2): (ibs, ihn)
It1(d) == (0..(d.batch_size - 1)) \X (0..(d.head_num - 1))

\* #pragma omp parallel for collapse(2): (ibs, i), i += 16
It2(d) == (0..(d.batch_size - 1)) \X Steps(d.M)

\* the position of an iteration in the collapsed second loop
Lin2(d, it) == it[1] * Cardinality(Steps(d.M)) + it[2] \div Blk

\* ker_seq_cpy_k_: per j, 16 rows of head_size_pad64 bytes at curr_tmp_k + j * head_size_pad64
TrKDst(e, ibs, ihn) ==
  LET curr_tmp_k == e.p.tmp_k + (ibs * e.d.head_num + ihn) * e.l.head_tmp_k_size
  IN { << curr_tmp_k + j * e.l.head_size_pad64,
          curr_tmp_k + j * e.l.head_size_pad64 + Blk * e.l.head_size_pad64 >> :
         j \in Steps(e.d.N) }

\* ker_seq_cpy_v_ and the zero fill: per j, the block of 16 * N_pad64 bytes at block_tmp_v
TrVDst(e, ibs, ihn) ==
  LET curr_tmp_v == e.p.tmp_v + (ibs * e.d.head_num + ihn) * e.l.head_tmp_v_size
  IN UNION { LET block_tmp_v == curr_tmp_v + j * e.l.N_pad64
             IN { << block_tmp_v, block_tmp_v + e.l.size_trq10n_v_block >> }
                  \cup (IF e.l.size_pad0_v_block # 0
                          THEN { << block_tmp_v + e.l.size_trq10n_v_block,
                                    block_tmp_v + e.l.size_trq10n_v_block
                                      + e.l.size_pad0_v_block >> }
                          ELSE {}) :
             j \in Steps(e.d.head_size) }

\* ker_seq_cpy_v_'s dst_scale: per j, min(16, head_size - j) floats at curr_tmp_v_scale + j
TrVScaleDst(e, ibs, ihn) ==
  LET curr_tmp_v_scale ==
        e.p.tmp_v_scale
          + SizeofFloat * ((ibs * e.d.head_num + ihn) * e.l.head_tmp_v_scale_size)
  IN { << curr_tmp_v_scale + SizeofFloat * j,
          curr_tmp_v_scale + SizeofFloat * (j + Min(Blk, e.d.head_size - j)) >> :
         j \in Steps(e.d.head_size) }

\* everything iteration (ibs, ihn) of the first loop writes
Writes1(e, ibs, ihn) ==
  TrKDst(e, ibs, ihn) \cup TrVDst(e, ibs, ihn) \cup TrVScaleDst(e, ibs, ihn)

\* std::copy_n and std::fill_n of the mask preparation, for batch ibs
MaskDst(e, ibs) ==
  IF e.d.N # e.l.N_pad16
    THEN { << e.p.tmp_mask + SizeofFloat * (ibs * e.l.N_pad16),
              e.p.tmp_mask + SizeofFloat * (ibs * e.l.N_pad16 + e.d.N) >>,
           << e.p.tmp_mask + SizeofFloat * (ibs * e.l.N_pad16 + e.d.N),
              e.p.tmp_mask + SizeofFloat * (ibs * e.l.N_pad16 + e.l.N_pad16) >> }
    ELSE {}

\* ker_qxk_'s dst: head_num batches of 16 rows of N_pad64 bytes at curr_tmp of thread t
ScratchDst(e, t) ==
  { << e.p.tmp_threads + t * e.l.tmp_thread_size,
       e.p.tmp_threads + t * e.l.tmp_thread_size + e.d.head_num * (Blk * e.l.N_pad64) >> }

\* ker_qxk_'s src1 and ker_axv_'s src1 and scale_src1: the K, V and V scale of batch ibs
Reads2(e, ibs) ==
  { << e.p.tmp_k + ibs * e.d.head_num * e.l.head_tmp_k_size,
       e.p.tmp_k + (ibs + 1) * e.d.head_num * e.l.head_tmp_k_size >>,
    << e.p.tmp_v + ibs * e.d.head_num * e.l.head_tmp_v_size,
       e.p.tmp_v + (ibs + 1) * e.d.head_num * e.l.head_tmp_v_size >>,
    << e.p.tmp_v_scale + SizeofFloat * (ibs * e.d.head_num * e.l.head_tmp_v_scale_size),
       e.p.tmp_v_scale
         + SizeofFloat * ((ibs + 1) * e.d.head_num * e.l.head_tmp_v_scale_size) >> }

\* ker_axv_'s dst and dst_scale: the 16 rows from row i of batch ibs on
DstRows(e, ibs, i) == { ibs * e.d.M + i + r : r \in 0..(Blk - 1) }

Disjoint(a, b) == a[2] <= b[1] \/ b[2] <= a[1]
Inside(a, b) == b[1] <= a[1] /\ a[2] <= b[2]

(***************************************************************************)
(* The state: the operator descriptor handed to the kernel descriptor, the *)
(* kernel built from it, and one execute call on caller-owned buffers.     *)
(***************************************************************************)
VARIABLES
  isa_ok,        \* isa_available(amx_int8)
  attrs,         \* op_desc_.attrs()
  descs,         \* op_desc_.tensor_descs()
  kd,            \* dynamic_quant_mha_kd_t::init: [r, oob], r = "none" before the call
  kern,          \* dynamic_quant_mha_k_t: the static dimensions, built = FALSE before
  max_threads,   \* omp_get_max_threads()
  rt,            \* rt_data: the first int32 of each dynamic-shape input
  ws_size,       \* what get_workspace_size() returned, -1 before the call
  pc,            \* the position of execute
  ex,            \* execute's locals: [d, l, p, read]
  mask,          \* rt_data[BINARY_ADD], the caller's mask, batch_size * N floats
  ws_mask,       \* the mask region of the workspace, batch_size * N_pad16 floats
  tmp_mask_ptr,  \* what execute's tmp_mask points to: "workspace" or "mask"
  tmp_k,         \* the transposed K block of each (ibs, ihn)
  tmp_v,         \* the transposed V block of each (ibs, ihn)
  tmp_v_scale,   \* the V scale block of each (ibs, ihn)
  tmp_threads,   \* the softmax scratch of each thread
  done1,         \* the iterations of the first parallel loop that have run
  ran2,          \* the thread that ran each iteration of the second loop, -1 = not run
  amx_init,      \* the indices of amx_init[] that hold true
  amx_oob,       \* amx_init[] was indexed at or past AmxInitSize
  log,           \* per thread, the micro-ops and micro-kernels it invoked, in order
  dst,           \* rt_data[DST], per output row
  dst_scale,     \* rt_data[DST_SCALE], per output row
  dst_oob,       \* a row at or past batch_size * M was written
  call,          \* which execute call this is
  first          \* Output and Output scale as the first call left them

vars ==
  << isa_ok, attrs, descs, kd, kern, max_threads, rt, ws_size, pc, ex, mask,
     ws_mask, tmp_mask_ptr, tmp_k, tmp_v, tmp_v_scale, tmp_threads, done1, ran2,
     amx_init, amx_oob, log, dst, dst_scale, dst_oob, call, first >>

descVars == << isa_ok, attrs, descs >>
execVars ==
  << pc, ex, mask, ws_mask, tmp_mask_ptr, tmp_k, tmp_v, tmp_v_scale, tmp_threads,
     done1, ran2, amx_init, amx_oob, log, dst, dst_scale, dst_oob, call, first >>

(***************************************************************************)
(* Operator descriptors the validation is run on: the descriptor of a      *)
(* dimension quintuple with a set of declared dynamic-shape slots, and up  *)
(* to MaxDefects defects applied to it.                                    *)
(***************************************************************************)
DynSlots == {"BATCH_SIZE", "HEAD_NUM", "HEAD_SIZE", "M", "N"}
ZpSlots == {"Q_ZP", "K_ZP", "V_ZP", "DST_ZP", "SRC_DST_SCALE", "SRC_DST_ZP"}
S8Slots == {"SRC_Q", "SRC_K", "SRC_V", "DST"}
Fp32Slots == {"BINARY_ADD", "Q_SCALE", "K_SCALE", "V_SCALE", "DST_SCALE"}

Defects ==
  { [k |-> "zp", s |-> s] : s \in ZpSlots }
    \cup { [k |-> "dtype", s |-> s] : s \in S8Slots \cup Fp32Slots }
    \cup { [k |-> "rank", s |-> s] : s \in {"SRC_Q", "SRC_K"} }
    \cup { [k |-> "empty", s |-> s] : s \in {"SRC_Q", "SRC_K"} }
    \cup { [k |-> "extra", s |-> s] : s \in {"SRC_Q", "SRC_V", "BINARY_ADD", "DST_SCALE"} }
    \cup { [k |-> "attr", s |-> s] :
             s \in {"no_approx_exp", "approx_exp_False", "no_stable_softmax",
                    "stable_softmax_True"} }
    \cup { [k |-> "descs", s |-> s] : s \in {"none", "short", "long"} }
    \cup { [k |-> "isa", s |-> "no_amx"] }

RECURSIVE DefectSetsUpTo(_)
DefectSetsUpTo(n) ==
  IF n = 0 THEN { {} }
  ELSE LET smaller == DefectSetsUpTo(n - 1)
       IN smaller \cup { D \cup {x} : D \in smaller, x \in Defects }

DefectSets == DefectSetsUpTo(MaxDefects)

BaseShape(name, d, dyn) ==
  CASE name \in {"SRC_Q", "DST"} -> <<d.b, d.m, d.h, d.hs>>
    [] name \in {"SRC_K", "SRC_V"} -> <<d.b, d.n, d.h, d.hs>>
    [] name = "BINARY_ADD" -> <<d.b, 1, 1, d.n>>
    [] name \in {"Q_SCALE", "DST_SCALE"} -> <<d.b, d.m>>
    [] name \in {"K_SCALE", "V_SCALE"} -> <<d.b, d.n>>
    [] name \in DynSlots -> IF name \in dyn THEN <<1>> ELSE << >>
    [] OTHER -> << >>

BaseDtype(name) ==
  CASE name \in S8Slots -> "s8"
    [] name \in Fp32Slots -> "fp32"
    [] name \in DynSlots -> "s32"
    [] OTHER -> "undef"

DescShape(name, d, dyn, D) ==
  LET base == BaseShape(name, d, dyn)
  IN CASE [k |-> "empty", s |-> name] \in D -> << >>
       [] [k |-> "rank", s |-> name] \in D -> <<base[1]>>
       [] [k |-> "extra", s |-> name] \in D -> Append(base, 1)
       [] [k |-> "zp", s |-> name] \in D -> <<1>>
       [] OTHER -> base

DescDtype(name, D) ==
  IF [k |-> "dtype", s |-> name] \in D
    THEN (IF name \in S8Slots THEN "u8" ELSE "bf16")
    ELSE BaseDtype(name)

DescLen(D) ==
  CASE [k |-> "descs", s |-> "none"] \in D -> 0
    [] [k |-> "descs", s |-> "short"] \in D -> IoIndex("DST_ZP")
    [] [k |-> "descs", s |-> "long"] \in D -> Len(io) + 1
    [] OTHER -> Len(io)

MakeDescs(d, dyn, D) ==
  [ i \in 1..DescLen(D) |->
      IF i <= Len(io)
        THEN [shape |-> DescShape(io[i], d, dyn, D), dtype |-> DescDtype(io[i], D)]
        ELSE [shape |-> <<1>>, dtype |-> "s32"] ]

MakeAttrs(D) ==
  LET keys == {"approx_exp", "stable_softmax"}
                \ ( (IF [k |-> "attr", s |-> "no_approx_exp"] \in D
                       THEN {"approx_exp"} ELSE {})
                    \cup (IF [k |-> "attr", s |-> "no_stable_softmax"] \in D
                            THEN {"stable_softmax"} ELSE {}) )
  IN [ a \in keys |->
         IF a = "approx_exp"
           THEN (IF [k |-> "attr", s |-> "approx_exp_False"] \in D
                   THEN "False" ELSE "True")
           ELSE (IF [k |-> "attr", s |-> "stable_softmax_True"] \in D
                   THEN "True" ELSE "False") ]

\* the dimension quintuples of the generated descriptors (0 = dynamic)
DescDims ==
  { [b |-> 2, m |-> 3, h |-> 4, hs |-> 5, n |-> 6],
    [b |-> 0, m |-> 3, h |-> 4, hs |-> 5, n |-> 6],
    [b |-> 2, m |-> 0, h |-> 4, hs |-> 5, n |-> 6],
    [b |-> 2, m |-> 3, h |-> 0, hs |-> 5, n |-> 6],
    [b |-> 2, m |-> 3, h |-> 4, hs |-> 0, n |-> 6],
    [b |-> 2, m |-> 3, h |-> 4, hs |-> 5, n |-> 0],
    [b |-> 2, m |-> 0, h |-> 4, hs |-> 0, n |-> 6],
    [b |-> 0, m |-> 0, h |-> 0, hs |-> 0, n |-> 0] }

NoKern == [built |-> FALSE, batch_size_ |-> 0, head_num_ |-> 0, M_ |-> 0,
           head_size_ |-> 0, N_ |-> 0]
NoDims == [batch_size |-> 0, head_num |-> 0, head_size |-> 0, M |-> 0, N |-> 0]
NoEx == [d |-> NoDims, l |-> Locals(NoDims), p |-> Layout(NoDims, Locals(NoDims)),
         read |-> {}]
NoRt == [s \in DynSlots |-> 0]

\* the execute-side state while no call is modelled
ExecIdle ==
  /\ pc = "start"
  /\ ex = NoEx
  /\ mask = << >>
  /\ ws_mask = << >>
  /\ tmp_mask_ptr = "workspace"
  /\ tmp_k = << >>
  /\ tmp_v = << >>
  /\ tmp_v_scale = << >>
  /\ tmp_threads = << >>
  /\ done1 = {}
  /\ ran2 = << >>
  /\ amx_init = {}
  /\ amx_oob = FALSE
  /\ log = << >>
  /\ dst = << >>
  /\ dst_scale = << >>
  /\ dst_oob = FALSE
  /\ call = 1
  /\ first = [dst |-> << >>, dst_scale |-> << >>]

InitDesc ==
  /\ \E d \in DescDims, dyn \in SUBSET DynSlots, D \in DefectSets :
       /\ isa_ok = ([k |-> "isa", s |-> "no_amx"] \notin D)
       /\ attrs = MakeAttrs(D)
       /\ descs = MakeDescs(d, dyn, D)
  /\ kd = [r |-> "none", oob |-> FALSE]
  /\ kern = NoKern
  /\ max_threads = 1
  /\ rt = NoRt
  /\ ws_size = -1
  /\ ExecIdle

(***************************************************************************)
(* dynamic_quant_mha_kd_t::init                                            *)
(***************************************************************************)
kd_init ==
  /\ kd.r = "none"
  /\ \E o \in kd_init_outcomes(isa_ok, attrs, descs) : kd' = o
  /\ UNCHANGED << descVars, kern, max_threads, rt, ws_size, execVars >>

(***************************************************************************)
(* dynamic_quant_mha_k_t::dynamic_quant_mha_k_t, on a descriptor init      *)
(* accepted.                                                               *)
(***************************************************************************)
k_construct ==
  /\ kd.r = "true"
  /\ ~kd.oob
  /\ ~kern.built
  /\ kern' = [built |-> TRUE] @@ Construct(descs)
  /\ UNCHANGED << descVars, kd, max_threads, rt, ws_size, execVars >>

NextDesc == kd_init \/ k_construct

SpecDesc == InitDesc /\ [][NextDesc]_vars


(***************************************************************************)
(* Kernels the sizing and the prologue of execute are run on: every static *)
(* dimension is 0 (dynamic) or positive, and the caller supplies the five  *)
(* dynamic-shape inputs.                                                   *)
(***************************************************************************)
BatchVals == 1..MaxBatch
HeadVals == {1, 2}
MVals == {16, 17}
HeadSizeVals == {16, 65}
NVals == {16, 20, 65}
ThreadCounts == {1, MaxTeam, AmxInitSize + 1}

RtVals ==
  [ BATCH_SIZE : BatchVals, HEAD_NUM : HeadVals, HEAD_SIZE : {16, 20},
    M : {16, 33}, N : {16, 20} ]

\* the descriptor init accepts for the static dimensions of k
DescOf(k) ==
  MakeDescs([b |-> k.batch_size_, m |-> k.M_, h |-> k.head_num_,
             hs |-> k.head_size_, n |-> k.N_], DynSlots, {})

InitSize ==
  /\ isa_ok = TRUE
  /\ attrs = MakeAttrs({})
  /\ \E b \in {0} \cup BatchVals, h \in {0} \cup HeadVals, m \in {0} \cup MVals,
        hs \in {0} \cup HeadSizeVals, n \in {0} \cup NVals :
       kern = [built |-> TRUE, batch_size_ |-> b, head_num_ |-> h, M_ |-> m,
               head_size_ |-> hs, N_ |-> n]
  /\ descs = DescOf(kern)
  /\ kd = [r |-> "true", oob |-> FALSE]
  /\ max_threads \in ThreadCounts
  /\ rt \in RtVals
  /\ ws_size = -1
  /\ ExecIdle

(***************************************************************************)
(* dynamic_quant_mha_k_t::get_workspace_size                               *)
(***************************************************************************)
k_get_workspace_size ==
  /\ kern.built
  /\ ws_size = -1
  /\ ws_size' = get_workspace_size(kern, max_threads)
  /\ UNCHANGED << descVars, kd, kern, max_threads, rt, execVars >>

(***************************************************************************)
(* execute, lines 138-174: the dimensions are resolved and the workspace   *)
(* is partitioned.                                                         *)
(***************************************************************************)
execute_begin ==
  /\ kern.built
  /\ pc = "start"
  /\ LET d == Resolve(kern, rt)
         l == Locals(d)
     IN ex' = [d |-> d, l |-> l, p |-> Layout(d, l), read |-> SlotsRead(kern)]
  /\ pc' = "phase1"
  /\ UNCHANGED << descVars, kd, kern, max_threads, rt, ws_size, mask, ws_mask,
                  tmp_mask_ptr, tmp_k, tmp_v, tmp_v_scale, tmp_threads, done1, ran2,
                  amx_init, amx_oob, log, dst, dst_scale, dst_oob, call, first >>

NextSize == k_get_workspace_size \/ execute_begin

SpecSize == InitSize /\ [][NextSize]_vars


(***************************************************************************)
(* One execute call on a kernel and caller-owned buffers.  The threads of  *)
(* the team that are modelled are the first MaxTeam - 1 and the last one.  *)
(***************************************************************************)
Team(T) == IF T <= MaxTeam THEN 0..(T - 1) ELSE (0..(MaxTeam - 2)) \cup {T - 1}

\* what a workspace the caller allocated for call c holds before execute writes it
Garbage(c) == 0 - c

\* the caller's mask: a value per element, none of them the sentinel
MaskInput(x) == x + 1

\* -1000.f
MaskPad == 0 - 1000

\* head_num, head_size and N of the calls that are run
ExecShapes == { <<1, 16, 16>>, <<2, 20, 20>>, <<2, 65, 32>> }
ExecM == {16, 17, 32}

ExecBuffers(d, T, c) ==
  /\ mask = [x \in 0..(d.batch_size * d.N - 1) |-> MaskInput(x)]
  /\ ws_mask = [x \in 0..(d.batch_size * pad_to(d.N, Blk) - 1) |-> Garbage(c)]
  /\ tmp_mask_ptr = "workspace"
  /\ tmp_k = [it \in It1(d) |-> Garbage(c)]
  /\ tmp_v = [it \in It1(d) |-> Garbage(c)]
  /\ tmp_v_scale = [it \in It1(d) |-> Garbage(c)]
  /\ tmp_threads = [t \in Team(T) |-> << 0 - 1, 0 - 1, c >>]
  /\ done1 = {}
  /\ ran2 = [it \in It2(d) |-> 0 - 1]
  /\ amx_init = {}
  /\ amx_oob = FALSE
  /\ log = [t \in Team(T) |-> << >>]
  /\ dst = [r \in 0..(d.batch_size * d.M - 1) |-> << 0 - 1, 0 - 1, 0 >>]
  /\ dst_scale = [r \in 0..(d.batch_size * d.M - 1) |-> << 0 - 1, 0 - 1, 0 >>]
  /\ dst_oob = FALSE

InitExecWith(Ms) ==
  /\ isa_ok = TRUE
  /\ attrs = MakeAttrs({})
  /\ \E b \in BatchVals, sh \in ExecShapes, m \in Ms, dynamic \in BOOLEAN :
       LET d == [batch_size |-> b, head_num |-> sh[1], head_size |-> sh[2],
                 M |-> m, N |-> sh[3]]
       IN /\ kern = IF dynamic THEN [NoKern EXCEPT !.built = TRUE]
                    ELSE [built |-> TRUE, batch_size_ |-> d.batch_size,
                          head_num_ |-> d.head_num, M_ |-> d.M,
                          head_size_ |-> d.head_size, N_ |-> d.N]
          /\ rt = [BATCH_SIZE |-> d.batch_size, HEAD_NUM |-> d.head_num,
                   HEAD_SIZE |-> d.head_size, M |-> d.M, N |-> d.N]
          /\ max_threads \in ThreadCounts
          /\ ExecBuffers(d, max_threads, 1)
  /\ descs = DescOf(kern)
  /\ kd = [r |-> "true", oob |-> FALSE]
  /\ ws_size = -1
  /\ pc = "start"
  /\ ex = NoEx
  /\ call = 1
  /\ first = [dst |-> << >>, dst_scale |-> << >>]

(***************************************************************************)
(* The first parallel loop, lines 178-216: iteration (ibs, ihn) transposes *)
(* K and transposes and requantizes V of one head into the workspace.      *)
(* A team of one thread runs the iterations in loop order.                 *)
(***************************************************************************)
InLoopOrder1(it) ==
  Cardinality(Team(max_threads)) > 1
    \/ \A o \in It1(ex.d) \ done1 :
         it[1] * ex.d.head_num + it[2] <= o[1] * ex.d.head_num + o[2]

run1(it) ==
  /\ pc = "phase1"
  /\ it \in It1(ex.d) \ done1
  /\ InLoopOrder1(it)
  /\ tmp_k' = [tmp_k EXCEPT ![it] = it[1] * ex.d.head_num + it[2]]
  /\ tmp_v' = [tmp_v EXCEPT ![it] = it[1] * ex.d.head_num + it[2]]
  /\ tmp_v_scale' = [tmp_v_scale EXCEPT ![it] = it[1] * ex.d.head_num + it[2]]
  /\ done1' = done1 \cup {it}
  /\ UNCHANGED << descVars, kd, kern, max_threads, rt, ws_size, pc, ex, mask, ws_mask,
                  tmp_mask_ptr, tmp_threads, ran2, amx_init, amx_oob, log, dst,
                  dst_scale, dst_oob, call, first >>

\* the end of the first parallel region: every iteration has run
Joined1 == done1 = It1(ex.d)

(***************************************************************************)
(* The mask preparation, lines 218-227: the workspace mask after it, and   *)
(* what tmp_mask points to.                                                *)
(***************************************************************************)
\* std::fill_n(curr_tmp_mask + N, N_pad16 - N, ..) left out
PrepareMask_nofill(e, m, w) ==
  IF e.d.N # e.l.N_pad16
    THEN [ x \in DOMAIN w |->
             IF x % e.l.N_pad16 < e.d.N
               THEN m[(x \div e.l.N_pad16) * e.d.N + (x % e.l.N_pad16)]
               ELSE w[x] ]
    ELSE w

PrepareMask(e, m, w) ==
  IF e.d.N # e.l.N_pad16
    THEN [ x \in DOMAIN w |->
             IF x % e.l.N_pad16 < e.d.N
               THEN m[(x \div e.l.N_pad16) * e.d.N + (x % e.l.N_pad16)]
               ELSE MaskPad ]
    ELSE w

MaskPtr(e) == IF e.d.N # e.l.N_pad16 THEN "workspace" ELSE "mask"

\* lines 218-229, after the first parallel region has ended
mask_prepare ==
  /\ pc = "phase1"
  /\ Joined1
  /\ ws_mask' = PrepareMask(ex, mask, ws_mask)
  /\ tmp_mask_ptr' = MaskPtr(ex)
  /\ amx_init' = amx_init \ (0..(max_threads - 1))
  /\ amx_oob' = (max_threads > AmxInitSize)
  /\ pc' = "phase2"
  /\ UNCHANGED << descVars, kd, kern, max_threads, rt, ws_size, ex, mask, tmp_k, tmp_v,
                  tmp_v_scale, tmp_threads, done1, ran2, log, dst, dst_scale, dst_oob,
                  call, first >>

(***************************************************************************)
(* The second parallel loop, lines 230-292: iteration (ibs, i) on thread t *)
(* configures the tiles if the thread's flag is unset, runs QK + softmax   *)
(* into the thread's scratch and AV into 16 rows of Output.  A thread runs *)
(* the iterations it gets in loop order.                                   *)
(***************************************************************************)
\* element x of the mask execute hands to ker_qxk_
MaskSeen(x) == IF tmp_mask_ptr = "workspace" THEN ws_mask[x] ELSE mask[x]

\* 0 when everything iteration (ibs, i) reads of the workspace was written by this
\* call, else the call whose workspace garbage it reads
Taint(ibs) ==
  IF /\ \A h \in 0..(ex.d.head_num - 1) :
          /\ tmp_k[<<ibs, h>>] >= 0
          /\ tmp_v[<<ibs, h>>] >= 0
          /\ tmp_v_scale[<<ibs, h>>] >= 0
     /\ \A c \in 0..(ex.l.N_pad16 - 1) : MaskSeen(ibs * ex.l.N_pad16 + c) # Garbage(call)
    THEN 0 ELSE call

run2(t, it) ==
  /\ pc = "phase2"
  /\ t \in Team(max_threads)
  /\ it \in It2(ex.d)
  /\ ran2[it] = -1
  /\ \A o \in It2(ex.d) : ran2[o] = t => Lin2(ex.d, o) < Lin2(ex.d, it)
  /\ \E flag \in IF t < AmxInitSize THEN {t \in amx_init} ELSE BOOLEAN :
       /\ log' = [log EXCEPT ![t] = (IF flag THEN @ ELSE Append(@, "amx_cfg"))
                                      \o << "qxk", "axv" >>]
       /\ amx_init' = IF t < AmxInitSize THEN amx_init \cup {t} ELSE amx_init
       /\ amx_oob' = (amx_oob \/ t >= AmxInitSize)
  /\ tmp_threads' = [tmp_threads EXCEPT ![t] = << it[1], it[2], Taint(it[1]) >>]
  /\ dst' = [r \in DOMAIN dst |->
               IF r \in DstRows(ex, it[1], it[2])
                 THEN << it[1], r, Taint(it[1]) >> ELSE dst[r]]
  /\ dst_scale' = [r \in DOMAIN dst_scale |->
                     IF r \in DstRows(ex, it[1], it[2])
                       THEN << it[1], r, Taint(it[1]) >> ELSE dst_scale[r]]
  /\ dst_oob' = (dst_oob \/ \E r \in DstRows(ex, it[1], it[2]) : r \notin DOMAIN dst)
  /\ ran2' = [ran2 EXCEPT ![it] = t]
  /\ UNCHANGED << descVars, kd, kern, max_threads, rt, ws_size, pc, ex, mask, ws_mask,
                  tmp_mask_ptr, tmp_k, tmp_v, tmp_v_scale, done1, call, first >>

\* the end of the second parallel region, and return true
execute_return ==
  /\ pc = "phase2"
  /\ \A it \in It2(ex.d) : ran2[it] # -1
  /\ pc' = "done"
  /\ UNCHANGED << descVars, kd, kern, max_threads, rt, ws_size, ex, mask, ws_mask,
                  tmp_mask_ptr, tmp_k, tmp_v, tmp_v_scale, tmp_threads, done1, ran2,
                  amx_init, amx_oob, log, dst, dst_scale, dst_oob, call, first >>

(***************************************************************************)
(* The caller keeps what the first call produced and calls execute again   *)
(* with the same inputs and a newly allocated workspace.                   *)
(***************************************************************************)
call_again ==
  /\ pc = "done"
  /\ call = 1
  /\ first' = [dst |-> dst, dst_scale |-> dst_scale]
  /\ call' = 2
  /\ pc' = "start"
  /\ ex' = NoEx
  /\ UNCHANGED mask
  /\ ws_mask' = [x \in DOMAIN ws_mask |-> Garbage(2)]
  /\ tmp_mask_ptr' = "workspace"
  /\ tmp_k' = [it \in DOMAIN tmp_k |-> Garbage(2)]
  /\ tmp_v' = [it \in DOMAIN tmp_v |-> Garbage(2)]
  /\ tmp_v_scale' = [it \in DOMAIN tmp_v_scale |-> Garbage(2)]
  /\ tmp_threads' = [t \in DOMAIN tmp_threads |-> << 0 - 1, 0 - 1, 2 >>]
  /\ done1' = {}
  /\ ran2' = [it \in DOMAIN ran2 |-> 0 - 1]
  /\ amx_init' = {}
  /\ amx_oob' = FALSE
  /\ log' = [t \in DOMAIN log |-> << >>]
  /\ dst' = [r \in DOMAIN dst |-> << 0 - 1, 0 - 1, 0 >>]
  /\ dst_scale' = [r \in DOMAIN dst_scale |-> << 0 - 1, 0 - 1, 0 >>]
  /\ dst_oob' = FALSE
  /\ UNCHANGED << descVars, kd, kern, max_threads, rt, ws_size >>

NextExec ==
  \/ execute_begin
  \/ \E it \in It1(ex.d) : run1(it)
  \/ mask_prepare
  \/ \E t \in Team(max_threads), it \in It2(ex.d) : run2(t, it)
  \/ execute_return

\* calls with a seq_q of one block, of one block and a row, and of two blocks
InitExec == InitExecWith(ExecM)

SpecExec == InitExec /\ [][NextExec]_vars

NextTwice == NextExec \/ call_again

SpecTwice == InitExec /\ [][NextTwice]_vars

\* calls with a seq_q of one block: one iteration of the second loop per batch
InitMask == InitExecWith({Blk})

SpecMask == InitMask /\ [][NextExec]_vars

(***************************************************************************)
(*                              The claims                                 *)
(***************************************************************************)
\* the static dimension init reads for a dynamic-shape slot, from a descriptor whose
\* Query and Key shapes have the four dimensions
StaticDim(shapes, slot) ==
  CASE slot = "BATCH_SIZE" -> shapes["SRC_Q"][1]
    [] slot = "HEAD_NUM" -> shapes["SRC_Q"][3]
    [] slot = "M" -> shapes["SRC_Q"][2]
    [] slot = "HEAD_SIZE" -> shapes["SRC_Q"][4]
    [] slot = "N" -> shapes["SRC_K"][2]

WellFormed == /\ Len(descs) = Len(io)
              /\ Len(get_tensor_shapes(descs)["SRC_Q"]) = 4
              /\ Len(get_tensor_shapes(descs)["SRC_K"]) = 4

\* every zero dimension has its own dynamic-shape slot declared as {1}
OwnSlotsDeclared(shapes) ==
  \A slot \in DynSlots : StaticDim(shapes, slot) = 0 => shapes[slot] = <<1>>

\* every check of init other than the five dynamic-dimension checks
OtherChecksOk ==
  LET shapes == get_tensor_shapes(descs)
  IN /\ isa_ok
     /\ AttrsOk(attrs)
     /\ ShapeChecks(shapes, StaticDim(shapes, "BATCH_SIZE"), StaticDim(shapes, "HEAD_NUM"),
                    StaticDim(shapes, "M"), StaticDim(shapes, "HEAD_SIZE"),
                    StaticDim(shapes, "N"))
     /\ ZpChecks(shapes)
     /\ DtypeChecks(get_tensor_dtypes(descs))

\* C1: in init, a dimension read as 0 passes validation only if the dynamic-shape slot
\* of that same dimension has shape {1}, and a descriptor whose zero dimensions have
\* their own singleton slots and that meets all other checks is accepted.
C1_ZeroDimNeedsOwnSlot ==
  (kd.r # "none" /\ WellFormed) =>
    /\ (kd.r = "true" => OwnSlotsDeclared(get_tensor_shapes(descs)))
    /\ ((OtherChecksOk /\ OwnSlotsDeclared(get_tensor_shapes(descs))) => kd.r = "true")

\* the conditions under which C3 says init returns false
C3Unsupported ==
  LET shape(name) == IF IoIndex(name) <= Len(descs)
                       THEN descs[IoIndex(name)].shape ELSE << >>
      declared(name) == IoIndex(name) <= Len(descs)
  IN \/ ~AttrsOk(attrs)
     \/ \E z \in ZpSlots : shape(z) # << >>
     \/ \E q \in S8Slots : declared(q) /\ descs[IoIndex(q)].dtype # "s8"
     \/ \E f \in Fp32Slots : declared(f) /\ descs[IoIndex(f)].dtype # "fp32"

\* C3: init returns false whenever an attribute is missing or wrong, a zero-point or
\* static per-channel slot has a non-empty shape, one of Query/Key/Value/Output is not
\* s8, or one of bias/mask and the Q/K/V/DST scales is not fp32.
C3_UnsupportedReturnsFalse ==
  (kd.r # "none" /\ C3Unsupported) => kd.r = "false"

\* C4: for every descriptor (also with a Query or Key shape of fewer than four
\* dimensions, or a slot list shorter or longer than the slot set) validation ends with
\* a boolean and indexes no shape or slot vector out of range.
C4_ValidationStaysInRange ==
  kd.r # "none" => (kd.r \in {"true", "false"} /\ ~kd.oob)

\* the five regions execute carves out of the workspace for max_threads threads
Regions(e, T) ==
  << << e.p.tmp_mask, e.p.tmp_k >>, << e.p.tmp_k, e.p.tmp_v >>,
     << e.p.tmp_v, e.p.tmp_v_scale >>, << e.p.tmp_v_scale, e.p.tmp_threads >>,
     << e.p.tmp_threads, TmpEnd(e.p, e.l, T) >> >>

\* the regions follow each other in order without overlap, and every destination of a
\* micro-kernel, copy or fill lies in the region it belongs to
RegionsLaidOut(e, T) ==
  LET R == Regions(e, T)
  IN /\ R[1][1] = 0
     /\ \A i \in 1..5 : R[i][1] <= R[i][2]
     /\ \A i \in 1..4 : R[i][2] = R[i + 1][1]
     /\ \A it \in It1(e.d) :
          /\ \A w \in TrKDst(e, it[1], it[2]) : Inside(w, R[2])
          /\ \A w \in TrVDst(e, it[1], it[2]) : Inside(w, R[3])
          /\ \A w \in TrVScaleDst(e, it[1], it[2]) : Inside(w, R[4])
     /\ \A ibs \in 0..(e.d.batch_size - 1) : \A w \in MaskDst(e, ibs) : Inside(w, R[1])
     /\ \A t \in 0..(T - 1) : \A w \in ScratchDst(e, t) : Inside(w, R[5])

\* C2: for every execute call the five workspace regions are contiguous in order, do
\* not overlap, hold every micro-kernel destination and zero fill, and end at or
\* before get_workspace_size() bytes, for static and for dynamic dimensions alike.
C2_RegionsWithinWorkspaceSize ==
  (pc # "start" /\ ws_size >= 0) =>
    /\ RegionsLaidOut(ex, max_threads)
    /\ TmpEnd(ex.p, ex.l, max_threads) <= ws_size

\* the kernel's static value of the dimension a dynamic-shape slot carries
StaticOf(k, slot) ==
  CASE slot = "BATCH_SIZE" -> k.batch_size_
    [] slot = "HEAD_NUM" -> k.head_num_
    [] slot = "HEAD_SIZE" -> k.head_size_
    [] slot = "M" -> k.M_
    [] slot = "N" -> k.N_

ResolvedOf(d, slot) ==
  CASE slot = "BATCH_SIZE" -> d.batch_size
    [] slot = "HEAD_NUM" -> d.head_num
    [] slot = "HEAD_SIZE" -> d.head_size
    [] slot = "M" -> d.M
    [] slot = "N" -> d.N

\* C5: execute resolves each dimension on its own: a static 0 takes the first int32 of
\* that dimension's own dynamic-shape input, a positive static value is used as is and
\* the input is not read; the sizes and offsets are those of the resolved values.
C5_DimsResolvedFromOwnSlot ==
  pc # "start" =>
    /\ \A slot \in DynSlots :
         IF StaticOf(kern, slot) = 0
           THEN ResolvedOf(ex.d, slot) = rt[slot] /\ slot \in ex.read
           ELSE ResolvedOf(ex.d, slot) = StaticOf(kern, slot) /\ slot \notin ex.read
    /\ ex.l.tmp_mask_size = ex.d.batch_size * ex.l.N_pad16
    /\ ex.l.tmp_thread_size = ex.d.head_num * Blk * ex.l.N_pad64
    /\ ex.l.N_pad16 >= ex.d.N /\ ex.l.N_pad16 < ex.d.N + Blk
    /\ ex.l.head_size_pad16 >= ex.d.head_size /\ ex.l.head_size_pad16 < ex.d.head_size + Blk

\* a call that resolved head_size and N from their inputs and kept a static M
C5_Witness ==
  /\ pc # "start"
  /\ kern.head_size_ = 0 /\ kern.N_ = 0 /\ kern.M_ > 0
  /\ rt["M"] # kern.M_ /\ rt["HEAD_SIZE"] # rt["M"]
  /\ ex.d.head_size = rt["HEAD_SIZE"] /\ ex.d.N = rt["N"] /\ ex.d.M = kern.M_
  /\ ex.read = {"HEAD_SIZE", "N"}

\* x rounded up to the next multiple of k
RoundUp(x, k) == CHOOSE y \in x..(x + k - 1) : y % k = 0

\* the size formula of the claim
ClaimedSize(batch, heads, seq_k, head_size, threads) ==
  4 * batch * RoundUp(seq_k, 64)
    + 2 * batch * heads * RoundUp(seq_k, 64) * RoundUp(head_size, 64)
    + 4 * batch * heads * RoundUp(head_size, 64)
    + 4 * threads * 16 * heads * RoundUp(seq_k, 64)

\* the kernels that differ from k in one dimension only, which is larger
Grown(k) ==
  UNION { { [k EXCEPT !.batch_size_ = @ + x], [k EXCEPT !.head_num_ = @ + x],
            [k EXCEPT !.head_size_ = @ + x], [k EXCEPT !.N_ = @ + x] } :
          x \in {1, 15, 16, 63, 64} }

\* C6: get_workspace_size is 4*b*pad(n,64) + 2*b*h*pad(n,64)*pad(hs,64)
\* + 4*b*h*pad(hs,64) + 4*threads*16*h*pad(n,64), never decreases when one of batch,
\* heads, seq_k, head_size or the thread count grows, and does not depend on seq_q.
C6_WorkspaceSizeFormulaMonotone ==
  ws_size >= 0 =>
    /\ ws_size = ClaimedSize(kern.batch_size_, kern.head_num_, kern.N_,
                             kern.head_size_, max_threads)
    /\ \A g \in Grown(kern) : get_workspace_size(g, max_threads) >= ws_size
    /\ \A x \in {1, 2, AmxInitSize} : get_workspace_size(kern, max_threads + x) >= ws_size
    /\ \A m \in 0..(2 * Blk + 1) :
         get_workspace_size([kern EXCEPT !.M_ = m], max_threads) = ws_size

\* the size of a kernel whose seq_k and head_size both need padding
C6_Witness ==
  /\ ws_size > 0
  /\ kern.batch_size_ = MaxBatch /\ kern.head_num_ = 2
  /\ kern.N_ % Pad64 # 0 /\ kern.head_size_ % Pad64 # 0
  /\ max_threads > 1


\* C7: two execute calls with identical inputs and independently allocated workspaces
\* of different initial contents leave identical Output and Output scale, under every
\* assignment of iterations to threads and every interleaving.
C7_SecondCallSameOutput ==
  (call = 2 /\ pc = "done") => (dst = first.dst /\ dst_scale = first.dst_scale)

\* two sets of byte intervals share no byte
NoOverlap(A, B) == \A a \in A, b \in B : Disjoint(a, b)

\* C8: two distinct iterations of a parallel loop that run on different threads write
\* disjoint memory (phase 1: K, V and V scale blocks; phase 2: the 16 Output rows and
\* Output scale entries from row i of the batch on, and the thread's own scratch), and
\* none reads what the other writes.
C8_IterationsWriteDisjoint ==
  pc # "start" =>
    /\ Cardinality(Team(max_threads)) > 1 =>
         \A a \in It1(ex.d), b \in It1(ex.d) :
           a # b => NoOverlap(Writes1(ex, a[1], a[2]), Writes1(ex, b[1], b[2]))
    /\ \A a \in It2(ex.d), b \in It2(ex.d) :
         (a # b /\ ran2[a] # -1 /\ ran2[b] # -1 /\ ran2[a] # ran2[b]) =>
           /\ DstRows(ex, a[1], a[2]) \cap DstRows(ex, b[1], b[2]) = {}
           /\ NoOverlap(ScratchDst(ex, ran2[a]), ScratchDst(ex, ran2[b]))
           /\ NoOverlap(Reads2(ex, a[1]), ScratchDst(ex, ran2[b]))

\* the iterations of the second loop thread t has run
RanBy(t) == { it \in DOMAIN ran2 : ran2[it] = t }

\* C9: in one execute call a thread that runs an iteration of the second loop invokes
\* the tile configuration exactly once, before its first QK or AV invocation; a thread
\* that runs none never invokes it; a thread touches only its own flag, whose index is
\* within the 256 entries of the array for every thread count.
C9_TileConfigOncePerThread ==
  pc \in {"phase2", "done"} =>
    /\ \A t \in Team(max_threads) :
         IF RanBy(t) = {}
           THEN log[t] = << >> /\ t \notin amx_init
           ELSE /\ log[t][1] = "amx_cfg"
                /\ Cardinality({ i \in DOMAIN log[t] : log[t][i] = "amx_cfg" }) = 1
    /\ amx_init \subseteq Team(max_threads)
    /\ ~amx_oob
    /\ \A t \in Team(max_threads) : t < AmxInitSize

\* C10: the mask preparation runs after every iteration of the first loop and before
\* any of the second.  When seq_k is not a multiple of 16 it leaves, for every batch b,
\* the caller's mask in columns [0, seq_k) of scratch row b and -1000 in columns
\* [seq_k, pad(seq_k, 16)), and the caller's mask untouched; when seq_k is a multiple
\* of 16 the second loop reads the caller's mask and the workspace mask region is
\* never written.
C10_MaskPreparedBetweenPhases ==
  LET B == Cardinality(DOMAIN dst) \div rt["M"]
      N == rt["N"]
      W == RoundUp(N, 16)
      prepared == pc \in {"phase2", "done"}
  IN /\ mask = [x \in 0..(B * N - 1) |-> MaskInput(x)]
     /\ prepared => done1 = It1(ex.d)
     /\ ~prepared =>
          /\ \A it \in DOMAIN ran2 : ran2[it] = -1
          /\ \A x \in DOMAIN ws_mask : ws_mask[x] = Garbage(call)
     /\ (prepared /\ N % 16 # 0) =>
          /\ tmp_mask_ptr = "workspace"
          /\ \A b \in 0..(B - 1) :
               /\ \A c \in 0..(N - 1) : MaskSeen(b * W + c) = mask[b * N + c]
               /\ \A c \in N..(W - 1) : MaskSeen(b * W + c) = -1000
     /\ N % 16 = 0 =>
          /\ prepared => tmp_mask_ptr = "mask"
          /\ prepared => \A x \in DOMAIN mask : MaskSeen(x) = mask[x]
          /\ \A x \in DOMAIN ws_mask : ws_mask[x] = Garbage(call)

\* a finished call on the last batch of a seq_k of 20: the copy and the sentinel
C10_Witness ==
  /\ pc = "done"
  /\ ex.d.N = 20
  /\ ex.d.batch_size = MaxBatch
  /\ ws_mask[(MaxBatch - 1) * 32 + 19] = mask[(MaxBatch - 1) * 20 + 19]
  /\ ws_mask[(MaxBatch - 1) * 32 + 20] = -1000
  /\ ws_mask[(MaxBatch - 1) * 32 + 31] = -1000

=============================================================================
